---- MODULE Spec2Model ----
(***************************************************************************)
(* asyncStringify (src/src/index.ts): JSON.stringify with an asynchronous  *)
(* replacer.  The model follows one top-level call: the recursive          *)
(* `transform` is a stack of suspended frames, each suspended either at    *)
(* `await replacer.call(...)` or at `await transform(...)`; the input is   *)
(* an object graph (heap) fixed when the call starts.                      *)
(***************************************************************************)
EXTENDS Integers, Sequences, FiniteSets, TLC

VARIABLES
    heap,      \* the input object graph: container identity -> container
    value,     \* asyncStringify's argument `value`
    space,     \* asyncStringify's argument `space`
    pc,        \* where the call is: "start", "replacer", "resume", "done"
    stack,     \* the suspended `transform` frames that hold a container
    visited,   \* the WeakSet `visited`
    pending,   \* replacer invocations whose promise has not settled
    ret,       \* the settled promise of the `transform` call that just ended
    calls,     \* every replacer invocation made so far, in order
    replies,   \* what each settled replacer invocation settled with, in order
    resolved,  \* every value a `transform` call returned, with its node
    hooked,    \* the containers whose toJSON `transform` called, in order
    replaces,  \* how many invocations returned something else than their value
    renders,   \* how many times JSON.stringify was invoked
    settled,   \* the promise asyncStringify returned
    other      \* a second top-level call, while it is not the one running

vars == <<heap, value, space, pc, stack, visited, pending, ret, calls,
          replies, resolved, hooked, replaces, renders, settled, other>>

----------------------------------------------------------------------------
(* Bounds of the model.                                                    *)

\* the most children (properties, or array length) of one input container
MaxLen == 2
\* the size of a run: the slots of the whole input graph (a child, or the
\* value a toJSON returns), plus the replacer invocations that do not return
\* the value they were given, plus one for a call that asks for indentation,
\* plus one for a second call on the same input
MaxSize == 3

\* the identities of the input's containers
Ids == {1, 2, 3}

----------------------------------------------------------------------------
(* JavaScript values.  t is the value's kind, v its payload: the identity  *)
(* of the container for an object, a small code otherwise.                 *)

Val(t, v) == [t |-> t, v |-> v]
Null      == Val("null", 0)
Undefined == Val("undefined", 0)
True      == Val("boolean", 1)
Num(n)    == Val("number", n)
Str(n)    == Val("string", n)
Func      == Val("function", 0)
BigInt    == Val("bigint", 0)
Symbol    == Val("symbol", 0)
Ref(c)    == Val("object", c)
\* an absent slot of a sparse array; reading it gives undefined
Hole      == Val("hole", 0)
\* a toJSON that throws instead of returning
Throws    == Val("throws", 0)

\* `typeof x`
TypeOf(x) == IF x.t = "null" THEN "object" ELSE x.t

----------------------------------------------------------------------------
(* The input object graph.  A container is a plain object (own enumerable  *)
(* string keys in insertion order, with their values), an array (its       *)
(* slots, index 0 first) or an object exposing a toJSON function, whose    *)
(* call returns `hook` whatever its receiver and arguments.                *)

Container(kind, keys, vals, hook) ==
    [kind |-> kind, keys |-> keys, vals |-> vals, hook |-> hook]

\* a container no reference of the input leads to
Unused == Container("object", <<>>, <<>>, Undefined)

\* the values a property or an array slot of the input holds
Leaves    == {Num(1), BigInt}
ChildVals == Leaves \cup {Ref(c) : c \in Ids}

\* the orders in which the keys of an input object were inserted
InsertionOrders ==
    { <<"b", "a", "c">>, <<"a", "1", "0">>, <<"__proto__", "2", "1">> }

Objects(n) ==
    { Container("object", SubSeq(o, 1, n), vs, Undefined) :
        o \in InsertionOrders, vs \in [1..n -> ChildVals] }
Arrays(n) ==
    { Container("array", <<>>, vs, Undefined) :
        vs \in [1..n -> ChildVals \cup {Hole}] }
Hooks ==
    { Container("hook", <<>>, <<>>, h) : h \in ChildVals \cup {Throws} }

\* the slots of a container: its children, or what its toJSON returns
Slots(c) == IF c.kind = "hook" THEN 1 ELSE Len(c.vals)

\* the containers of at most n slots
Containers(n) ==
    UNION { Objects(m) \cup Arrays(m) : m \in 0..n }
        \cup (IF n >= 1 THEN Hooks ELSE {})

Min(a, b) == IF a < b THEN a ELSE b
Range(s)  == { s[i] : i \in DOMAIN s }

\* the containers a container refers to
RefsOf(c) ==
    { x.v : x \in { y \in Range(c.vals) \cup {c.hook} : y.t = "object" } }

----------------------------------------------------------------------------
(* Property enumeration.                                                   *)

Digits == <<"0", "1", "2", "3", "4", "5", "6", "7", "8", "9">>

\* `String(i)` of an array index
String(i) == Digits[i + 1]

\* the keys that are array indices
IsIndex(k) == k \in Range(Digits)

\* The order in which `for (const k in replaced)` and JSON.stringify visit
\* the own enumerable string keys of an object whose keys were inserted in
\* the order `keys`: the array indices in ascending numeric order, then the
\* other keys in insertion order.
OwnKeys(keys) ==
    SelectSeq(Digits, LAMBDA d : d \in Range(keys))
        \o SelectSeq(keys, LAMBDA k : ~IsIndex(k))

\* Every object of the input inherits one enumerable property from its
\* prototype, besides the own properties `keys` lists.
Inherited    == "inherited"
InheritedVal == Num(1)

\* line 72: the keys `for (const k in replaced)` goes through: the own
\* enumerable string keys, then the enumerable ones of the prototype
ForIn(c) == OwnKeys(heap[c].keys) \o <<Inherited>>

\* a mutant: the loop takes every key for..in gives
HasOwnProperty_Always(c, k) == TRUE
\* line 73: `Object.prototype.hasOwnProperty.call(replaced, k)`
HasOwnProperty(c, k) == k \in Range(heap[c].keys)

\* `replaced[k]` for a key of an input object, own or inherited
Get(c, k) ==
    IF k \in Range(heap[c].keys)
    THEN LET i == CHOOSE j \in DOMAIN heap[c].keys : heap[c].keys[j] = k
         IN  heap[c].vals[i]
    ELSE InheritedVal

\* `replaced[i]` of an input array: an absent slot reads as undefined
At(c, i) == IF heap[c].vals[i + 1] = Hole THEN Undefined ELSE heap[c].vals[i + 1]

\* a mutant: the loop over an object follows the insertion order
LoopKeys_Inserted(c) ==
    IF heap[c].kind = "array"
    THEN [i \in 1..Len(heap[c].vals) |-> String(i - 1)]
    ELSE heap[c].keys
\* the keys the loop of `transform` goes through, in its order
LoopKeys(c) ==
    IF heap[c].kind = "array"
    THEN [i \in 1..Len(heap[c].vals) |-> String(i - 1)]
    ELSE SelectSeq(ForIn(c), LAMBDA k : HasOwnProperty(c, k))

\* the value the loop reads under its j-th key
LoopVal(c, j) ==
    IF heap[c].kind = "array" THEN At(c, j - 1) ELSE Get(c, LoopKeys(c)[j])

----------------------------------------------------------------------------
(* The values `transform` returns: a value of the input as it is, or a     *)
(* fresh array or object with its children.  kids are the own properties   *)
(* in insertion order, proto the prototype once an assignment changed it.  *)

Tree(t, v, kids, proto) == [t |-> t, v |-> v, kids |-> kids, proto |-> proto]
Leaf(x)     == Tree(x.t, x.v, <<>>, <<>>)
NewArray    == Tree("Array", 0, <<>>, <<>>)
NewObject   == Tree("Object", 0, <<>>, <<>>)
Kid(k, e)   == [k |-> k, e |-> e]

IsObjectLike(e) == e.t \in {"object", "Array", "Object"}

\* a mutant: undefined is not pushed
Push_Defined(result, e) ==
    IF e.t = "undefined" THEN result
    ELSE [result EXCEPT !.kids = Append(@, Kid(String(Len(@)), e))]
\* `result.push(transformed)`
Push(result, e) ==
    [result EXCEPT !.kids = Append(@, Kid(String(Len(@)), e))]

\* `result[k] = transformed` on an object literal's result: the key
\* "__proto__" reaches the accessor of Object.prototype, which changes the
\* prototype to an object or null and ignores any other value; it never
\* creates an own property.
Assign(result, k, e) ==
    IF k = "__proto__"
    THEN IF IsObjectLike(e) \/ e.t = "null"
         THEN [result EXCEPT !.proto = <<e>>]
         ELSE result
    ELSE [result EXCEPT !.kids = Append(@, Kid(k, e))]

\* how a `transform` call ended
Return(e)  == [kind |-> "return", e |-> e, err |-> ""]
Throw(err) == [kind |-> "throw", e |-> Leaf(Undefined), err |-> err]

CircularError == "TypeError: Converting circular structure to JSON"
BigIntError   == "TypeError: Do not know how to serialize a BigInt"
ReplacerError == "replacer rejected"
HookError     == "toJSON threw"

----------------------------------------------------------------------------
(* JSON.stringify(value, null, space), the renderer: the text as a         *)
(* sequence of tokens, or undefined, or a TypeError.                       *)

Text(s)    == [k |-> "text", s |-> s, err |-> ""]
Absent     == [k |-> "undefined", s |-> <<>>, err |-> ""]
Fails(err) == [k |-> "throw", s |-> <<>>, err |-> err]

RenderCircular == "TypeError: cyclic structure (JSON.stringify)"
RenderBigInt   == "TypeError: BigInt (JSON.stringify)"

\* the text of the strings the model uses
StrText(n) == <<"x", "y">>[n]

Quote(k) == <<"\"", k, "\"">>

\* the gap of a numeric `space`, at most ten spaces, `depth` times over
Indent(sp, depth) == [i \in 1..(depth * Min(10, sp)) |-> " "]

RECURSIVE ToJSON(_)
\* The callable `toJSON` of an object, own or inherited along its prototype
\* chain: <<>> when there is none, else what calling it gives.
ToJSON(e) ==
    IF e.t = "object"
    THEN IF heap[e.v].kind = "hook" THEN <<heap[e.v].hook>> ELSE <<>>
    ELSE IF e.t \in {"Array", "Object"} /\ e.proto # <<>>
         THEN ToJSON(e.proto[1])
         ELSE <<>>

IsArray(e) == e.t = "Array" \/ (e.t = "object" /\ heap[e.v].kind = "array")

\* the own enumerable properties of a container, in JSON.stringify's order
Properties(e) ==
    IF e.t = "Array"
    THEN e.kids
    ELSE IF e.t = "Object"
    THEN LET ks == OwnKeys([j \in DOMAIN e.kids |-> e.kids[j].k])
         IN  [j \in DOMAIN ks |->
                 e.kids[CHOOSE m \in DOMAIN e.kids : e.kids[m].k = ks[j]]]
    ELSE IF heap[e.v].kind = "array"
    THEN [j \in DOMAIN heap[e.v].vals |-> Kid(String(j - 1), Leaf(At(e.v, j - 1)))]
    ELSE LET ks == OwnKeys(heap[e.v].keys)
         IN  [j \in DOMAIN ks |-> Kid(ks[j], Leaf(Get(e.v, ks[j])))]

RECURSIVE Join(_, _)
Join(parts, sep) ==
    IF parts = <<>> THEN <<>>
    ELSE IF Len(parts) = 1 THEN parts[1]
    ELSE parts[1] \o sep \o Join(Tail(parts), sep)

\* the text of a container from the texts of its members
Wrap(parts, open, close, sp, depth) ==
    IF parts = <<>> THEN <<open, close>>
    ELSE IF Min(10, sp) = 0
    THEN <<open>> \o Join(parts, <<",">>) \o <<close>>
    ELSE <<open, "\n">> \o Indent(sp, depth)
            \o Join(parts, <<",", "\n">> \o Indent(sp, depth))
            \o <<"\n">> \o Indent(sp, depth - 1) \o <<close>>

RECURSIVE SerializeJSONProperty(_, _, _, _), SerializeMembers(_, _, _, _, _, _)

\* SerializeJSONProperty: e is the property's value, stk the containers of
\* the input being serialized around it.
SerializeJSONProperty(e, stk, sp, depth) ==
    LET h == IF IsObjectLike(e) THEN ToJSON(e) ELSE <<>>
        v == IF h = <<>> THEN e ELSE Leaf(h[1])
    IN  CASE v.t = "throws"  -> Fails(HookError)
          [] v.t = "null"    -> Text(<<"null">>)
          [] v.t = "boolean" -> Text(<<"true">>)
          [] v.t = "number"  -> Text(<<String(v.v)>>)
          [] v.t = "string"  -> Text(Quote(StrText(v.v)))
          [] v.t = "bigint"  -> Fails(RenderBigInt)
          [] IsObjectLike(v) ->
                IF v.t = "object" /\ v.v \in stk
                THEN Fails(RenderCircular)
                ELSE LET r == SerializeMembers(Properties(v), IsArray(v),
                                  IF v.t = "object" THEN stk \cup {v.v} ELSE stk,
                                  sp, depth + 1, <<>>)
                     IN  IF r.k = "throw" THEN Fails(r.err)
                         ELSE IF IsArray(v)
                         THEN Text(Wrap(r.parts, "[", "]", sp, depth + 1))
                         ELSE Text(Wrap(r.parts, "{", "}", sp, depth + 1))
          [] OTHER -> Absent

\* SerializeJSONArray and SerializeJSONObject: the texts of the members
SerializeMembers(props, isArray, stk, sp, depth, parts) ==
    IF props = <<>> THEN [k |-> "parts", parts |-> parts, err |-> ""]
    ELSE LET p == Head(props)
             r == SerializeJSONProperty(p.e, stk, sp, depth)
             member ==
                 IF isArray
                 THEN IF r.k = "undefined" THEN <<"null">> ELSE r.s
                 ELSE Quote(p.k) \o <<":">>
                        \o (IF Min(10, sp) = 0 THEN <<>> ELSE <<" ">>) \o r.s
         IN  IF r.k = "throw" THEN [k |-> "throw", parts |-> <<>>, err |-> r.err]
             ELSE SerializeMembers(Tail(props), isArray, stk, sp, depth,
                     IF r.k = "undefined" /\ ~isArray THEN parts
                     ELSE Append(parts, member))

\* JSON.stringify(e, null, sp)
JSONstringify(e, sp) == SerializeJSONProperty(e, {}, sp, 0)

\* how many slots the containers a reference leads to hold
Entries(h) == Slots(h[1]) + Slots(h[2]) + Slots(h[3])

\* the values of `space`: none, and one space of indentation
Spaces == {0, 1}

\* the size of a run that has seen n replacements
Size(n) ==
    Entries(heap) + n + (IF space = 0 THEN 0 ELSE 1)
        + (IF other.pc = "idle" THEN 0 ELSE 1)

\* what the root of a call without containers is
RootLeaves == {Null, Undefined, True, Num(1), Str(1), Func, BigInt, Symbol}

\* The input graphs: container 1 is the root's, 2 and 3 are numbered in the
\* order they are first referred to, a container nothing refers to is Unused.
Firsts ==
    { c \in Containers(Min(MaxLen, MaxSize)) :
        3 \in RefsOf(c) => 2 \in RefsOf(c) }
Seconds(c1) ==
    IF 2 \in RefsOf(c1)
    THEN Containers(Min(MaxLen, MaxSize - Slots(c1)))
    ELSE {Unused}
Thirds(c1, c2) ==
    IF 3 \in RefsOf(c1) \cup RefsOf(c2)
    THEN Containers(Min(MaxLen, MaxSize - Slots(c1) - Slots(c2)))
    ELSE {Unused}

\* the state of one top-level call: its argument and promise, the position
\* it is suspended at, and the frames and the set of its `transform` calls
Call(v, at, frames, set, pend, r, cs, rs, res, hk, n, out) ==
    [value |-> v, pc |-> at, stack |-> frames, visited |-> set,
     pending |-> pend, ret |-> r, calls |-> cs, replies |-> rs,
     resolved |-> res, hooked |-> hk, renders |-> n, settled |-> out]

\* no second call has been made
Idle == Call(Undefined, "idle", <<>>, {}, <<>>, <<>>, <<>>, <<>>, <<>>, <<>>,
             0, <<>>)

Init ==
    /\ \/ /\ \E c1 \in Firsts :
               \E c2 \in Seconds(c1) :
                 \E c3 \in Thirds(c1, c2) :
                   heap = <<c1, c2, c3>>
          /\ value = Ref(1)
       \/ /\ heap = <<Unused, Unused, Unused>>
          /\ value \in RootLeaves
    /\ space \in { sp \in Spaces : Entries(heap) + sp <= MaxSize }
    /\ pc = "start"
    /\ stack = <<>>
    /\ visited = {}
    /\ pending = <<>>
    /\ ret = <<>>
    /\ calls = <<>>
    /\ replies = <<>>
    /\ resolved = <<>>
    /\ hooked = <<>>
    /\ replaces = 0
    /\ renders = 0
    /\ settled = <<>>
    /\ other = Idle

----------------------------------------------------------------------------
(* The call.                                                               *)

\* the synthetic container `{ '': value }` the root is transformed under
Holder == Val("holder", 0)

\* a replacer invocation: `replacer.call(parent, key, val)`
Invocation(parent, key, val) == [parent |-> parent, key |-> key, val |-> val]

\* a suspended `transform` frame inside the try block: it was called for
\* `call`, `replaced` is the container obj, and the loop awaits the child
\* under its i-th key
Frame(call, obj, i, result) ==
    [call |-> call, obj |-> obj, i |-> i, result |-> result]

\* a value a `transform` call returned: the node it was called for, what the
\* replacer gave for it, and the returned value
Resolved(call, replaced, e) ==
    [parent |-> call.parent, key |-> call.key, replaced |-> replaced, e |-> e]

\* what a replacer invocation may settle with besides the value it was given
Rejects   == Val("rejects", 0)
Responses ==
    {Undefined, Func, BigInt, Symbol, Rejects} \cup {Ref(c) : c \in Ids}

\* The replacer is any asynchronous function: each invocation settles with
\* the value it was given or, while the run's size allows, with another
\* value or a rejection.
Outcomes(call) ==
    {call.val} \cup
        (IF Size(replaces) < MaxSize THEN Responses ELSE {})

\* a mutant: the loop awaits a `transform` it never called
Launch_None(c, i) == <<>>
\* a mutant: the replacer is called without its receiver
Launch_Unbound(c, i) == <<Invocation(Undefined, LoopKeys(c)[i], LoopVal(c, i))>>
\* a mutant: the loop starts the invocations of all children at once
Launch_All(c, i) ==
    IF i > 1 THEN <<>>
    ELSE [j \in 1..Len(LoopKeys(c)) |->
             Invocation(Ref(c), LoopKeys(c)[j], LoopVal(c, j))]
\* line 65 and 74: the replacer invocations a frame starts when its loop
\* reaches its i-th key
Launch(c, i) == <<Invocation(Ref(c), LoopKeys(c)[i], LoopVal(c, i))>>

\* a mutant: a BigInt is returned like the other primitives
BigIntFound_Returned == Return(Leaf(BigInt))
\* line 31: the failure of a BigInt
BigIntFound == Throw(BigIntError)

\* a mutant: a visited container is left out instead of refused
CycleFound_Silent == Return(Leaf(Undefined))
\* line 55: the failure of a container met below itself
CycleFound  == Throw(CircularError)

\* a mutant: the check looks for the value the replacer was given
Seen_Original(c) ==
    LET val == Head(pending).val
    IN  val.t = "object" /\ val # Null /\ val.v \in visited
\* line 54: `visited.has(replaced)`
Seen(c) == c \in visited

\* a mutant: the exit of a container empties the set
Finally_Clear(c) == {}
\* a mutant: the delete stands at the end of the try block, not in finally
Finally_OnReturn(c) == IF ret[1].kind = "throw" THEN visited ELSE visited \ {c}
\* a mutant: the finally block does not delete
Finally_Keep(c) == visited
\* line 81: `visited.delete(replaced)` in the finally block
Finally(c) == visited \ {c}

\* a mutant: the frame catches a child's failure and throws its own
Rethrow_Wrapped(r) == Throw("Error: transform failed")
\* lines 60-82: try and finally, no catch: a child's failure leaves the
\* frame as it came
Rethrow(r) == r

\* line 63, line 71: the result the loop starts from
NewResult(c) == IF heap[c].kind = "array" THEN NewArray ELSE NewObject

\* line 8-14: asyncStringify calls transform on the root, which calls the
\* replacer and suspends
asyncStringify ==
    /\ pc = "start"
    /\ pc' = "replacer"
    /\ visited' = {}
    /\ pending' = <<Invocation(Holder, "", value)>>
    /\ calls' = Append(calls, Invocation(Holder, "", value))
    /\ UNCHANGED <<heap, value, space, stack, ret, replies, resolved,
                   hooked, replaces, renders, settled,
                   other>>

\* the `transform` call that awaited the replacer ends without descending
Settle(replaced, r) ==
    /\ ret' = <<r>>
    /\ pc' = "resume"
    /\ pending' = Tail(pending)
    /\ resolved' = IF r.kind = "return"
                   THEN Append(resolved, Resolved(Head(pending), replaced, r.e))
                   ELSE resolved
    /\ UNCHANGED <<stack, visited, calls>>

\* lines 58-79 for a plain container c not yet visited: visited.add, then
\* the loop up to its first await; an empty container returns at once,
\* through the finally block
Descend(c) ==
    IF LoopKeys(c) = <<>>
    THEN /\ ret' = <<Return(NewResult(c))>>
         /\ pc' = "resume"
         /\ pending' = Tail(pending)
         /\ visited' = (visited \cup {c}) \ {c}
         /\ resolved' = Append(resolved,
                            Resolved(Head(pending), Ref(c), NewResult(c)))
         /\ UNCHANGED <<stack, calls>>
    ELSE /\ stack' = Append(stack, Frame(Head(pending), c, 1, NewResult(c)))
         /\ visited' = visited \cup {c}
         /\ pending' = Tail(pending) \o Launch(c, 1)
         /\ calls' = calls \o Launch(c, 1)
         /\ pc' = "replacer"
         /\ UNCHANGED <<ret, resolved>>

\* a mutant: no object is taken to have a toJSON
HasToJSON_Never(x) == FALSE
\* line 49: `typeof replaced.toJSON === 'function'` for an object
HasToJSON(x) == heap[x.v].kind = "hook"

\* line 50: the toJSON calls `transform` makes for the replacer's result
HookCalls(replaced) ==
    IF TypeOf(replaced) = "object" /\ replaced # Null /\ HasToJSON(replaced)
    THEN <<replaced.v>>
    ELSE <<>>

\* lines 27-58 and 85: `transform` resumes with the replacer's result
transform(replaced) ==
    IF replaced = Rejects THEN Settle(replaced, Throw(ReplacerError))
    ELSE IF TypeOf(replaced) = "bigint" THEN Settle(replaced, BigIntFound)
    ELSE IF \/ replaced = Null
            \/ replaced = Undefined
            \/ TypeOf(replaced) \in {"string", "number", "boolean", "function"}
    THEN Settle(replaced, Return(Leaf(replaced)))
    ELSE IF TypeOf(replaced) = "object"
    THEN IF HasToJSON(replaced)
         THEN IF heap[replaced.v].hook = Throws
              THEN Settle(replaced, Throw(HookError))
              ELSE Settle(replaced, Return(Leaf(heap[replaced.v].hook)))
         ELSE IF Seen(replaced.v)
         THEN Settle(replaced, CycleFound)
         ELSE Descend(replaced.v)
    ELSE Settle(replaced, Return(Leaf(replaced)))

\* the promise of the pending replacer invocation settles
ReplacerSettles ==
    /\ pc = "replacer"
    /\ pending # <<>>
    /\ \E r \in Outcomes(Head(pending)) :
         /\ replaces' = replaces + (IF r = Head(pending).val THEN 0 ELSE 1)
         /\ replies' = Append(replies, r)
         /\ hooked' = hooked \o HookCalls(r)
         /\ transform(r)
    /\ UNCHANGED <<heap, value, space, renders, settled,
                   other>>

\* lines 64-82: the frame on top resumes from `await transform(...)` of its
\* child: a failure runs the finally block and goes on to the caller, a
\* value is stored and the loop goes on or returns through the finally block
ChildSettles ==
    /\ pc = "resume"
    /\ stack # <<>>
    /\ LET f    == stack[Len(stack)]
           rest == SubSeq(stack, 1, Len(stack) - 1)
           r    == ret[1]
           keys == LoopKeys(f.obj)
           res  == IF heap[f.obj].kind = "array"
                   THEN Push(f.result, r.e)
                   ELSE Assign(f.result, keys[f.i], r.e)
       IN  IF r.kind = "throw"
           THEN /\ visited' = Finally(f.obj)
                /\ stack' = rest
                /\ ret' = <<Rethrow(r)>>
                /\ UNCHANGED <<pc, pending, calls, resolved>>
           ELSE IF f.i < Len(keys)
           THEN /\ stack' = Append(rest, Frame(f.call, f.obj, f.i + 1, res))
                /\ pending' = pending \o Launch(f.obj, f.i + 1)
                /\ calls' = calls \o Launch(f.obj, f.i + 1)
                /\ ret' = <<>>
                /\ pc' = "replacer"
                /\ UNCHANGED <<visited, resolved>>
           ELSE /\ visited' = Finally(f.obj)
                /\ stack' = rest
                /\ ret' = <<Return(res)>>
                /\ resolved' = Append(resolved,
                                   Resolved(f.call, Ref(f.obj), res))
                /\ UNCHANGED <<pc, pending, calls>>
    /\ UNCHANGED <<heap, value, space, replies, hooked, replaces, renders,
                   settled,
                   other>>

\* the promise asyncStringify returned
Fulfilled(out) == [state |-> "fulfilled", out |-> out, err |-> ""]
Rejected(err)  == [state |-> "rejected", out |-> Absent, err |-> err]

\* a mutant: a value without JSON text is refused
Render_TextOnly(e) ==
    LET out == JSONstringify(e, space)
    IN  IF out.k # "text" THEN Rejected(RenderCircular) ELSE Fulfilled(out)
\* line 16: what asyncStringify does with the value `transform` returned
Render(e) ==
    LET out == JSONstringify(e, space)
    IN  IF out.k = "throw" THEN Rejected(out.err) ELSE Fulfilled(out)

\* a mutant: line 16 runs whatever line 14 gave
RendererCalls_Always(r) == 1
\* lines 14-16: a failure of the awaited `transform` leaves asyncStringify
\* at line 14, so that line 16 calls JSON.stringify for a returned value only
RendererCalls(r) == IF r.kind = "throw" THEN 0 ELSE 1

\* lines 14-16: asyncStringify resumes from `await transform(...)`: a
\* failure rejects its promise, a value goes to JSON.stringify
RootSettles ==
    /\ pc = "resume"
    /\ stack = <<>>
    /\ pc' = "done"
    /\ ret' = <<>>
    /\ renders' = renders + RendererCalls(ret[1])
    /\ settled' = IF ret[1].kind = "throw"
                  THEN <<Rejected(ret[1].err)>>
                  ELSE <<Render(ret[1].e)>>
    /\ UNCHANGED <<heap, value, space, stack, visited, pending, calls,
                   replies, resolved, hooked, replaces,
                   other>>

Next ==
    \/ asyncStringify
    \/ ReplacerSettles
    \/ ChildSettles
    \/ RootSettles

Spec == Init /\ [][Next]_vars

----------------------------------------------------------------------------
(* The call under a replacer that, from some node on, gives for every node *)
(* a new object with one own key, `async () => ({ a: 1 })`.  Such an       *)
(* object has no toJSON and is in no set, so that `transform` adds it and  *)
(* calls itself for the key "a".  No frame is resumed from then on: the    *)
(* frames of the new objects and the invocations made for them are not     *)
(* kept.                                                                   *)

\* a reference to an object made by the replacer
Fresh == Val("fresh", 0)

\* line 27: the promise of the pending invocation is fulfilled with a new
\* object; the continuation of `transform` is queued
ReplacerGrows ==
    /\ pc \in {"replacer", "growing"}
    /\ pending # <<>>
    /\ pc' = "fresh"
    /\ pending' = <<>>
    /\ UNCHANGED <<heap, value, space, stack, visited, ret, calls, replies,
                   resolved, hooked, replaces, renders, settled,
                   other>>

\* lines 30-74 for the new object: none of the returns and throws of lines
\* 30-56 applies, the loop reaches the key "a" and `transform` calls the
\* replacer for it
FreshDescends ==
    /\ pc = "fresh"
    /\ pc' = "growing"
    /\ pending' = <<Invocation(Fresh, "a", Num(1))>>
    /\ UNCHANGED <<heap, value, space, stack, visited, ret, calls, replies,
                   resolved, hooked, replaces, renders, settled,
                   other>>

NextOrGrow ==
    \/ Next
    \/ ReplacerGrows
    \/ FreshDescends

\* line 14: the continuation of `asyncStringify` after the root `transform`
\* has settled; the step of RootSettles, told by its guard and by pc alone
RootResumes ==
    /\ pc = "resume"
    /\ stack = <<>>
    /\ pc' = "done"

\* Every continuation that is ready runs, and every replacer invocation
\* settles: the event loop leaves no enabled step waiting forever.
LiveSpec ==
    /\ Init
    /\ [][NextOrGrow]_vars
    /\ WF_vars(asyncStringify \/ ReplacerSettles \/ ChildSettles
                  \/ ReplacerGrows \/ FreshDescends)
    /\ WF_pc(RootResumes)

----------------------------------------------------------------------------
(* What the claims speak of.                                               *)

Done     == pc = "done"
Outcome  == settled[1]
\* every replacer invocation so far returned the value it was given
Identity == replaces = 0

\* the containers a plain container holds as children
ChildRefs(c) ==
    IF heap[c].kind = "hook" THEN {}
    ELSE { x.v : x \in { y \in Range(heap[c].vals) : y.t = "object" } }

RECURSIVE Closes(_, _)
\* below container c, itself below the containers anc, a chain of children
\* leads back to c or to one of anc
Closes(c, anc) ==
    \/ c \in anc
    \/ \E d \in ChildRefs(c) : Closes(d, anc \cup {c})

\* the input holds a container that refers to one of its own ancestors
CyclicInput == value.t = "object" /\ Closes(value.v, {})

RECURSIVE Below(_, _)
\* the containers found from c through the children of plain containers
Below(c, seen) ==
    IF c \in seen THEN seen
    ELSE LET step[S \in SUBSET Ids] ==
                 IF S = {} THEN seen \cup {c}
                 ELSE LET d == CHOOSE x \in S : TRUE
                      IN  Below(d, step[S \ {d}])
         IN  step[ChildRefs(c)]

InputContainers == IF value.t = "object" THEN Below(value.v, {}) ELSE {}

\* the input holds no BigInt value and no hook that throws
NoOtherFailure ==
    /\ value # BigInt
    /\ \A c \in InputContainers :
         /\ BigInt \notin Range(heap[c].vals)
         /\ heap[c].hook # Throws

\* the input holds only plain containers and no BigInt value
PlainInput ==
    /\ value # BigInt
    /\ \A c \in InputContainers :
         heap[c].kind # "hook" /\ BigInt \notin Range(heap[c].vals)

----------------------------------------------------------------------------
\* C1 as stated: with a replacer that returns every value as it is, every
\* input in which a container refers to one of its own ancestors makes the
\* call fail with the circular-structure TypeError.
C1_AlwaysCircularError ==
    (Done /\ Identity /\ CyclicInput) =>
        (Outcome.state = "rejected" /\ Outcome.err = CircularError)

\* C1 as amended: such an input always makes the call fail before anything
\* is rendered, with the circular-structure TypeError when the input holds
\* no BigInt value and no throwing hook, and otherwise with that error or
\* with the error of the BigInt or hook the traversal met first.
C1_CyclicInputFails ==
    (Done /\ Identity /\ CyclicInput) =>
        /\ Outcome.state = "rejected"
        /\ renders = 0
        /\ Outcome.err \in {CircularError, BigIntError, HookError}
        /\ NoOtherFailure => Outcome.err = CircularError

\* a cycle that closes three containers deep, through an object and an
\* array, was refused
C1_Witness ==
    /\ Done /\ Identity /\ CyclicInput /\ NoOtherFailure
    /\ Outcome.err = CircularError
    /\ Len(calls) = 4
    /\ heap[1].kind = "object" /\ heap[2].kind = "array"
    /\ replies[4] = Ref(1)

----------------------------------------------------------------------------
\* the invocations made with container c as parent
CallsUnder(c) == { j \in DOMAIN calls : calls[j].parent = Ref(c) }

RECURSIVE Occurs(_, _), OccursIn(_, _)
\* at how many positions of the tree that unfolds from value x container c
\* stands (an input without cycle only)
Occurs(x, c) ==
    IF x.t # "object" THEN 0
    ELSE (IF x.v = c THEN 1 ELSE 0)
            + (IF heap[x.v].kind = "hook" THEN 0
               ELSE OccursIn(heap[x.v].vals, c))
OccursIn(xs, c) ==
    IF xs = <<>> THEN 0 ELSE Occurs(Head(xs), c) + OccursIn(Tail(xs), c)

\* C2: with a replacer that returns every value as it is, an input in which
\* no container is its own ancestor never fails with the circular-structure
\* error, however many branches share a container; when it holds only plain
\* containers and no BigInt the call succeeds, and every child of a
\* container is transformed once for each position the container stands at.
C2_SharedContainerResolves ==
    (Done /\ Identity /\ value.t = "object" /\ ~CyclicInput) =>
        /\ Outcome.err # CircularError
        /\ PlainInput =>
             /\ Outcome.state = "fulfilled"
             /\ Outcome.out.k = "text"
             /\ \A c \in Ids :
                  Cardinality(CallsUnder(c))
                      = Occurs(value, c) * Len(heap[c].vals)

\* a container with a child stood under two siblings and was resolved twice
C2_Witness ==
    /\ Done /\ Identity /\ ~CyclicInput /\ PlainInput
    /\ heap[1].vals = <<Ref(2), Ref(2)>>
    /\ Len(heap[2].vals) = 1
    /\ Cardinality(CallsUnder(2)) = 2
    /\ Outcome.state = "fulfilled"

----------------------------------------------------------------------------
\* C3: at most one replacer invocation is pending at any time, and while
\* one is pending every other invocation made so far either has settled and
\* had its whole subtree resolved, or is the invocation of an ancestor of
\* the pending node: no sibling is started before the earlier ones finished.
C3_OneInvocationAtATime ==
    /\ Len(pending) <= 1
    /\ Len(calls) = Len(replies) + Len(pending)
    /\ pending # <<>> =>
         /\ pc = "replacer"
         /\ ret = <<>>
         /\ Len(calls) - 1 = Len(resolved) + Len(stack)
         /\ stack # <<>> => pending[1].parent = Ref(stack[Len(stack)].obj)

\* the second child of the root is pending after the first child, a
\* container with a child of its own, was resolved completely
C3_Witness ==
    /\ pending # <<>>
    /\ Len(stack) = 1
    /\ stack[1].i = 2
    /\ Len(resolved) = 2
    /\ resolved[2].e.t \in {"Array", "Object"}

----------------------------------------------------------------------------
\* the invocations a frame has made for the children of its container: the
\* last f.i invocations made under it
CallsOf(f) ==
    LET u == SelectSeq(calls, LAMBDA x : x.parent = Ref(f.obj))
    IN  SubSeq(u, Len(u) - f.i + 1, Len(u))

KeysOf(f) == [j \in DOMAIN CallsOf(f) |-> CallsOf(f)[j].key]

\* the number an array-index key writes
IndexOf(k) == CHOOSE n \in 0..9 : Digits[n + 1] = k

\* s lists the keys `keys` once each, the array indices first and in
\* ascending order, the other keys after them in the order of `keys`
IndicesThenInsertion(s, keys) ==
    /\ Len(s) = Len(keys)
    /\ Range(s) = Range(keys)
    /\ \A p, q \in DOMAIN s : p < q =>
         /\ IsIndex(s[q]) => IsIndex(s[p]) /\ IndexOf(s[p]) < IndexOf(s[q])
         /\ (~IsIndex(s[p]) /\ ~IsIndex(s[q])) =>
              \E a, b \in DOMAIN keys :
                  a < b /\ keys[a] = s[p] /\ keys[b] = s[q]

\* the invocations of an array's frame go up the indices from 0, each with
\* the slot's value
AscendingIndices(f) ==
    \A j \in DOMAIN CallsOf(f) :
        /\ IndexOf(CallsOf(f)[j].key) = j - 1
        /\ CallsOf(f)[j].val = At(f.obj, j - 1)

\* an invocation that gave a plain container with children is followed by
\* the invocation of that container's child, before any sibling
DepthFirst ==
    \A j \in DOMAIN calls :
        (/\ j < Len(calls)
         /\ replies[j].t = "object"
         /\ heap[replies[j].v].kind # "hook"
         /\ heap[replies[j].v].vals # <<>>)
        => calls[j + 1].parent = replies[j]

\* C4 as stated: the children of an array are invoked in ascending index
\* order and those of an object in the order its keys were inserted,
\* depth first.
C4_InsertionOrder ==
    /\ DepthFirst
    /\ \A n \in DOMAIN stack :
         IF heap[stack[n].obj].kind = "array"
         THEN AscendingIndices(stack[n])
         ELSE KeysOf(stack[n])
                 = SubSeq(heap[stack[n].obj].keys, 1, stack[n].i)

\* C4 as amended: the children of an array are invoked in ascending index
\* order; those of an object whose keys are array indices first, in
\* ascending numeric order, and then the other keys in the order they were
\* inserted; depth first.
C4_IndicesThenInsertionOrder ==
    /\ DepthFirst
    /\ \A n \in DOMAIN stack :
         IF heap[stack[n].obj].kind = "array"
         THEN AscendingIndices(stack[n])
         ELSE \E s \in [1..Len(heap[stack[n].obj].keys)
                            -> Range(heap[stack[n].obj].keys)] :
                /\ IndicesThenInsertion(s, heap[stack[n].obj].keys)
                /\ KeysOf(stack[n]) = SubSeq(s, 1, stack[n].i)
                /\ \A j \in 1..stack[n].i :
                     CallsOf(stack[n])[j].val = Get(stack[n].obj, s[j])

\* an object whose keys were inserted as "a" then "1" has had its children
\* invoked as "1" then "a", and the array under "a" its slot 0
C4_Witness ==
    /\ Len(stack) = 2
    /\ heap[stack[1].obj].keys = <<"a", "1">>
    /\ KeysOf(stack[1]) = <<"1", "a">>
    /\ heap[stack[2].obj].kind = "array"
    /\ KeysOf(stack[2]) = <<"0">>

----------------------------------------------------------------------------
\* container a refers to container b, as a child or as what its toJSON gives
Edge(a, b) == b \in RefsOf(heap[a])

\* no container of the graph leads back to itself, through children or
\* through what a toJSON returns
AcyclicGraph ==
    \A c \in Ids :
        /\ ~Edge(c, c)
        /\ \A d \in Ids : ~(Edge(c, d) /\ Edge(d, c))
        /\ \A d, e \in Ids : ~(Edge(c, d) /\ Edge(d, e) /\ Edge(e, c))

\* what JSON.stringify(value, null, space) gives for the input itself
Reference == JSONstringify(Leaf(value), space)

\* C5 as stated: for an input container without cycle, the call with a
\* replacer that returns every value as it is gives what
\* JSON.stringify(value, null, space) gives: the same text, or undefined
\* where it gives undefined, or a failure where it fails.
C5_SameAsReference ==
    (Done /\ Identity /\ value.t = "object" /\ AcyclicGraph) =>
        IF Reference.k = "throw"
        THEN Outcome.state = "rejected"
        ELSE Outcome = Fulfilled(Reference)

----------------------------------------------------------------------------
\* the value the root's `transform` call returned
RootResolved == resolved[Len(resolved)]

\* the call was fulfilled and the root resolved to a fresh container of type t
RootIs(t) ==
    /\ Done
    /\ Outcome.state = "fulfilled"
    /\ resolved # <<>>
    /\ RootResolved.parent = Holder
    /\ RootResolved.e.t = t

\* the values the children of container c resolved to, in the order they
\* were resolved
ChildrenOf(c) == SelectSeq(resolved, LAMBDA r : r.parent = Ref(c))

\* the text of a resolved value that stands as a child of the root
TextOf(e) == SerializeJSONProperty(e, {}, space, 1)

\* a resolved value that is neither undefined nor a function, and that
\* has a JSON text
Representable(e) == e.t \notin {"undefined", "function"} /\ TextOf(e).k = "text"

RECURSIVE KeyedMembers(_)
\* the members the claim gives the output object: none for a child that
\* resolved to undefined or a function, `"key":value` for any other
KeyedMembers(rs) ==
    IF rs = <<>> THEN <<>>
    ELSE (IF Head(rs).e.t \in {"undefined", "function"} THEN <<>>
          ELSE << Quote(Head(rs).key) \o <<":">>
                    \o (IF space = 0 THEN <<>> ELSE <<" ">>)
                    \o TextOf(Head(rs).e).s >>)
            \o KeyedMembers(Tail(rs))

\* C6 as stated: when the root resolves to a keyed container whose children
\* each resolved to undefined, to a function or to a value that has a JSON
\* text, the output is the object that holds no key of a child resolved to
\* undefined or a function and every other own key with its resolved value.
C6_OmittedOrPresent ==
    (/\ RootIs("Object")
     /\ \A j \in DOMAIN ChildrenOf(RootResolved.replaced.v) :
          LET e == ChildrenOf(RootResolved.replaced.v)[j].e
          IN  e.t \in {"undefined", "function"} \/ Representable(e))
    => /\ Len(ChildrenOf(RootResolved.replaced.v))
            = Len(heap[RootResolved.replaced.v].keys)
       /\ Outcome.out = Text(Wrap(
              KeyedMembers(ChildrenOf(RootResolved.replaced.v)),
              "{", "}", space, 1))

----------------------------------------------------------------------------
RECURSIVE SequenceMembers(_)
\* the members the claim gives the output array: null for a child that
\* resolved to undefined or a function or that has no JSON text, the
\* child's text otherwise
SequenceMembers(rs) ==
    IF rs = <<>> THEN <<>>
    ELSE << IF Representable(Head(rs).e)
            THEN TextOf(Head(rs).e).s
            ELSE <<"null">> >>
            \o SequenceMembers(Tail(rs))

\* C7: every array `transform` builds has the length of the array it was
\* built from, with indices 0..length-1; when the root resolves to an
\* array, the child resolved for index i is the i-th member of the output,
\* as null when it resolved to undefined or a function, and an absent slot
\* the replacer left as it is resolves to undefined and so appears as null.
C7_IndexAligned ==
    /\ \A j \in DOMAIN resolved :
         resolved[j].e.t = "Array" =>
            /\ Len(resolved[j].e.kids) = Len(heap[resolved[j].replaced.v].vals)
            /\ \A i \in DOMAIN resolved[j].e.kids :
                 resolved[j].e.kids[i].k = String(i - 1)
    /\ RootIs("Array") =>
         LET c  == RootResolved.replaced.v
             rs == ChildrenOf(c)
         IN  /\ Len(rs) = Len(heap[c].vals)
             /\ \A i \in DOMAIN rs :
                  /\ rs[i].key = String(i - 1)
                  /\ rs[i].e = RootResolved.e.kids[i].e
                  /\ (heap[c].vals[i] = Hole /\ rs[i].replaced = Undefined)
                        => rs[i].e = Leaf(Undefined)
             /\ Outcome.out = Text(Wrap(SequenceMembers(rs), "[", "]", space, 1))

\* an array with an absent slot before a number was resolved, the replacer
\* leaving the absent slot undefined
C7_Witness ==
    /\ RootIs("Array")
    /\ heap[RootResolved.replaced.v].vals = <<Hole, Num(1)>>
    /\ replies[2] = Undefined
    /\ Outcome.out = Text(<<"[", "null", ",", "1", "]">>)

----------------------------------------------------------------------------
\* C8: once a replacer invocation has given a BigInt, at the root or at any
\* depth, `transform` throws the BigInt TypeError at once: no value is
\* returned for that node, no further invocation is made, the frames
\* around it pass the error on, and the call is rejected with that error
\* without JSON.stringify being called.
C8_BigIntRejected ==
    \A j \in DOMAIN replies :
        replies[j] = BigInt =>
            /\ j = Len(calls)
            /\ pending = <<>>
            /\ pc \in {"resume", "done"}
            /\ pc = "resume" => ret = <<Throw(BigIntError)>>
            /\ \A n \in DOMAIN resolved : resolved[n].replaced # BigInt
            /\ Len(resolved) + Len(stack) < Len(calls)
            /\ Done => (Outcome = Rejected(BigIntError) /\ renders = 0)

\* the replacer gave a BigInt for a child that was not one, two containers
\* deep, and the call was rejected
C8_Witness ==
    /\ Done
    /\ Len(calls) = 3
    /\ calls[3].val # BigInt
    /\ replies[3] = BigInt
    /\ calls[3].parent # calls[2].parent
    /\ Outcome = Rejected(BigIntError)

----------------------------------------------------------------------------
\* C9: once a replacer invocation has failed, no further invocation is made
\* (the failed one is not made again either), every frame passes the
\* failure on as it is, and the call is rejected with that failure without
\* JSON.stringify being called.
C9_FailurePropagates ==
    \A j \in DOMAIN replies :
        replies[j] = Rejects =>
            /\ j = Len(calls)
            /\ pending = <<>>
            /\ pc \in {"resume", "done"}
            /\ pc = "resume" => ret = <<Throw(ReplacerError)>>
            /\ Len(resolved) + Len(stack) < Len(calls)
            /\ Done => (Outcome = Rejected(ReplacerError) /\ renders = 0)

\* the replacer failed for a child two containers deep, both frames were
\* left through their finally block, and the call was rejected
C9_Witness ==
    /\ Done
    /\ Len(calls) = 3
    /\ replies[3] = Rejects
    /\ calls[3].parent # calls[2].parent
    /\ resolved = <<>>
    /\ visited = {}
    /\ Outcome = Rejected(ReplacerError)

----------------------------------------------------------------------------
\* C10: JSON.stringify is called at most once, and only when the call is
\* over with every replacer invocation settled, no frame left and the root
\* resolved; a call that ends without a resolved root (a circular
\* structure, a BigInt, a failed replacer, a throwing toJSON) never calls
\* it and settles with the error alone.
C10_RenderedOnceAtTheEnd ==
    /\ renders <= 1
    /\ renders = 1 =>
         /\ Done
         /\ pending = <<>> /\ stack = <<>>
         /\ Len(replies) = Len(calls)
         /\ Len(resolved) = Len(calls)
         /\ resolved # <<>> /\ RootResolved.parent = Holder
         /\ Outcome = Render(RootResolved.e)
    /\ (Done /\ Len(resolved) < Len(calls)) =>
         /\ renders = 0
         /\ Outcome.state = "rejected"
         /\ Outcome.out = Absent
         /\ Outcome.err \in {CircularError, BigIntError, ReplacerError, HookError}
    /\ ~Done => renders = 0

\* a call was rendered once after four invocations, and another ending is
\* not confused with it: the output is a text
C10_Witness ==
    /\ Done
    /\ renders = 1
    /\ Len(calls) = 4
    /\ Outcome.state = "fulfilled"
    /\ Outcome.out.k = "text"

----------------------------------------------------------------------------
\* the j-th invocation was made for a child of a plain container: its
\* context is that container, which an earlier invocation gave as its
\* result, its key one of the container's own keys or indices, and its
\* value the one the container holds under that key
ChildInvocation(j) ==
    LET p == calls[j].parent
    IN  /\ p.t = "object"
        /\ heap[p.v].kind # "hook"
        /\ \E i \in 1..(j - 1) : replies[i] = p
        /\ IF heap[p.v].kind = "array"
           THEN \E n \in 0..(Len(heap[p.v].vals) - 1) :
                  /\ calls[j].key = String(n)
                  /\ calls[j].val = At(p.v, n)
           ELSE /\ calls[j].key \in Range(heap[p.v].keys)
                /\ calls[j].val = Get(p.v, calls[j].key)

\* C11: the first invocation, and no other, is made with key "" on the
\* root value under the synthetic container; every other invocation is
\* made under a plain container with one of its keys and the value held
\* there, and the first invocation after one that gave a plain container
\* with children has that result, not the value it replaced, as context.
C11_InvocationContext ==
    /\ calls # <<>> => calls[1] = Invocation(Holder, "", value)
    /\ \A j \in DOMAIN calls : j > 1 =>
         /\ calls[j].parent # Holder
         /\ ChildInvocation(j)
    /\ \A j \in DOMAIN replies :
         (/\ j < Len(calls)
          /\ replies[j].t = "object"
          /\ heap[replies[j].v].kind # "hook"
          /\ heap[replies[j].v].vals # <<>>)
         => calls[j + 1].parent = replies[j]
    /\ \A n \in DOMAIN stack :
         n < Len(stack) => stack[n + 1].call.parent = Ref(stack[n].obj)
    /\ (pending # <<>> /\ stack # <<>>) =>
         pending[1].parent = Ref(stack[Len(stack)].obj)

\* the replacer gave another container for the root, and the child of that
\* container was invoked with it as context
C11_Witness ==
    /\ Len(calls) >= 2
    /\ replies[1] # value
    /\ replies[1].t = "object"
    /\ calls[2].parent = replies[1]
    /\ calls[2].parent # value

----------------------------------------------------------------------------
\* the root's `transform` call returned a value
RootReturned == Done /\ resolved # <<>> /\ RootResolved.parent = Holder

\* C12: when the root resolves to undefined or to a function, the call is
\* fulfilled with undefined: it neither fails nor gives a text.
C12_AbsentRoot ==
    (RootReturned /\ RootResolved.e.t \in {"undefined", "function"}) =>
        /\ Outcome = Fulfilled(Absent)
        /\ renders = 1

\* the replacer gave a function for a root that was a container, and the
\* call was fulfilled with undefined
C12_Witness ==
    /\ RootReturned
    /\ value.t = "object"
    /\ RootResolved.e = Leaf(Func)
    /\ Outcome = Fulfilled(Absent)

----------------------------------------------------------------------------
(* JSON.parse of a text JSON.stringify gave, and the call made again on    *)
(* the parsed value with a replacer that returns every value as it is.     *)

\* the string a text between quotes writes
StrCode(tok) == CHOOSE n \in 1..2 : StrText(n) = tok

RECURSIVE SkipSpace(_, _)
\* the first position from i on that holds no white space
SkipSpace(s, i) ==
    IF i <= Len(s) /\ s[i] \in {" ", "\n"} THEN SkipSpace(s, i + 1) ELSE i

\* a parsed value and the position after its text
Parsed(e, next) == [e |-> e, next |-> next]

\* CreateDataProperty: JSON.parse defines every member as an own property,
\* "__proto__" like any other key
Define(obj, k, e) == [obj EXCEPT !.kids = Append(@, Kid(k, e))]

RECURSIVE ParseValue(_, _), ParseElements(_, _, _), ParseMembers(_, _, _)
ParseValue(s, from) ==
    LET i == SkipSpace(s, from)
    IN  CASE s[i] = "null" -> Parsed(Leaf(Null), i + 1)
          [] s[i] = "true" -> Parsed(Leaf(True), i + 1)
          [] s[i] = "\""   -> Parsed(Leaf(Str(StrCode(s[i + 1]))), i + 3)
          [] s[i] = "["    -> ParseElements(s, i + 1, NewArray)
          [] s[i] = "{"    -> ParseMembers(s, i + 1, NewObject)
          [] OTHER         -> Parsed(Leaf(Num(IndexOf(s[i]))), i + 1)

\* the elements of an array, from the position after "[" or ","
ParseElements(s, from, arr) ==
    LET i == SkipSpace(s, from)
    IN  IF s[i] = "]" THEN Parsed(arr, i + 1)
        ELSE LET v == ParseValue(s, i)
                 j == SkipSpace(s, v.next)
             IN  ParseElements(s, IF s[j] = "," THEN j + 1 ELSE j,
                     Define(arr, String(Len(arr.kids)), v.e))

\* the members of an object, from the position after "{" or ","
ParseMembers(s, from, obj) ==
    LET i == SkipSpace(s, from)
    IN  IF s[i] = "}" THEN Parsed(obj, i + 1)
        ELSE LET colon == SkipSpace(s, i + 3)
                 v     == ParseValue(s, colon + 1)
                 j     == SkipSpace(s, v.next)
             IN  ParseMembers(s, IF s[j] = "," THEN j + 1 ELSE j,
                     Define(obj, s[i + 1], v.e))

\* JSON.parse(text)
JSONparse(s) == ParseValue(s, 1).e

RECURSIVE transformAgain(_), LoopAgain(_, _, _)
\* lines 27-85 on a parsed value, which holds only plain fresh objects and
\* arrays, null, true, numbers and strings, with a replacer that returns
\* every value as it is: the value `transform` returns
transformAgain(e) ==
    IF e.t = "Array" THEN LoopAgain(e.kids, TRUE, NewArray)
    ELSE IF e.t = "Object" THEN LoopAgain(Properties(e), FALSE, NewObject)
    ELSE e

\* lines 61-78: the loop over the properties left, with the result so far
LoopAgain(props, isArray, result) ==
    IF props = <<>> THEN result
    ELSE LoopAgain(Tail(props), isArray,
            IF isArray
            THEN Push(result, transformAgain(Head(props).e))
            ELSE Assign(result, Head(props).k, transformAgain(Head(props).e)))

\* the call was fulfilled with a text under a replacer that returned every
\* value as it is
RenderedIdentity ==
    Done /\ Identity /\ Outcome.state = "fulfilled" /\ Outcome.out.k = "text"

\* C13 as stated: after a call with a replacer that returns every value as
\* it is, parsing the text and resolving the parsed value again gives a
\* tree equal to the parsed one, which is the representable content of the
\* first resolved tree, and rendering it gives the same text.
C13_RoundTrip ==
    RenderedIdentity =>
        /\ transformAgain(JSONparse(Outcome.out.s)) = JSONparse(Outcome.out.s)
        /\ JSONstringify(transformAgain(JSONparse(Outcome.out.s)), space)
              = Outcome.out

----------------------------------------------------------------------------
\* the containers of the suspended frames: the ancestors of the node whose
\* invocation is pending
Ancestors == { stack[n].obj : n \in DOMAIN stack }

\* C14: in every state the visited set holds exactly the containers of the
\* frames that are active, each once, whatever other containers the call
\* has been through.
C14_VisitedIsAncestors ==
    /\ visited = Ancestors
    /\ Cardinality(Ancestors) = Len(stack)

\* a container with a child was resolved under the root and has left the
\* set while its sibling is pending
C14_Witness ==
    /\ pending # <<>>
    /\ Len(stack) = 1
    /\ \E j \in DOMAIN resolved :
         /\ resolved[j].replaced.t = "object"
         /\ resolved[j].e.t \in {"Array", "Object"}
         /\ resolved[j].e.kids # <<>>
         /\ resolved[j].replaced.v \notin visited
    /\ visited = {stack[1].obj}

----------------------------------------------------------------------------
\* C15: a container leaves the visited set when its frame ends, by a
\* returned value or by a failure passing through it, so that the set is
\* empty once the call has settled, fulfilled or rejected.
C15_VisitedUnwinds ==
    /\ (pc = "resume" /\ ret[1].kind = "throw") => visited = Ancestors
    /\ Done => visited = {}

\* a circular structure was refused two containers deep and the set is
\* empty after the rejection
C15_Witness ==
    /\ Done
    /\ Outcome = Rejected(CircularError)
    /\ Len(calls) = 3
    /\ calls[3].parent # calls[2].parent
    /\ visited = {}

----------------------------------------------------------------------------
\* the value is a container of the input that has a toJSON
IsHook(x) == x.t = "object" /\ heap[x.v].kind = "hook"

\* the replies that are containers with a toJSON, as their containers
HookReplies ==
    LET hs == SelectSeq(replies, IsHook)
    IN  [j \in DOMAIN hs |-> hs[j].v]

\* C16: `transform` calls the toJSON of a replacer result once for each
\* node that result is given for, and what it returns is the value the
\* node resolves to, as it is: the container is not put in the visited
\* set, no invocation is made under it or for anything in what the toJSON
\* returned (the next invocation, if any, is made under a container that
\* was entered before: the node's parent or an ancestor of it), and the
\* node does not fail with the circular or the BigInt error of `transform`,
\* even when the toJSON returns a BigInt or a container being visited.
C16_HookBypass ==
    /\ hooked = HookReplies
    /\ \A c \in visited : heap[c].kind # "hook"
    /\ \A j \in DOMAIN calls : ~IsHook(calls[j].parent)
    /\ \A n \in DOMAIN resolved :
         IsHook(resolved[n].replaced) =>
            resolved[n].e = Leaf(heap[resolved[n].replaced.v].hook)
    /\ Cardinality({ n \in DOMAIN resolved : IsHook(resolved[n].replaced) })
         = Cardinality({ j \in DOMAIN replies :
               IsHook(replies[j]) /\ heap[replies[j].v].hook # Throws })
    /\ \A j \in DOMAIN replies :
         (IsHook(replies[j]) /\ j < Len(calls)) =>
            \E i \in 1..j : calls[i].parent = calls[j + 1].parent
    /\ (/\ replies # <<>>
        /\ IsHook(replies[Len(replies)])
        /\ heap[replies[Len(replies)].v].hook # Throws)
       => /\ pc = "resume" => ret[1].kind = "return"
          /\ Done => Outcome.err \notin {CircularError, BigIntError}

\* a child's toJSON returned the container of the root, which was being
\* visited: the child resolved to it and the next sibling was invoked
C16_Witness ==
    /\ Len(calls) = 3
    /\ IsHook(replies[2])
    /\ heap[replies[2].v].hook = replies[1]
    /\ replies[1].v \in visited
    /\ resolved[1].e = Leaf(replies[1])
    /\ calls[3].parent = calls[2].parent

----------------------------------------------------------------------------
\* how many nodes the replacer gave container c for
Visits(c) == Cardinality({ j \in DOMAIN replies : replies[j] = Ref(c) })

\* how many invocations were made under container c with key k
Invoked(c, k) ==
    Cardinality({ j \in DOMAIN calls :
                    calls[j].parent = Ref(c) /\ calls[j].key = k })

\* the children a plain container has: its slots, or its own keys
Children(c) == IF heap[c].kind = "hook" THEN 0 ELSE Len(heap[c].vals)

\* C17: no frame invokes a key twice, and once the root has resolved the
\* replacer was invoked once for the root and, for each node that resolved
\* to a plain container, once for each index below its length (absent
\* slots included) or once for each own key, and for nothing else: not for
\* an inherited property, not for a container with a toJSON.
C17_OncePerNode ==
    /\ \A n \in DOMAIN stack :
         Cardinality(Range(KeysOf(stack[n]))) = stack[n].i
    /\ RootReturned =>
         /\ Cardinality({ j \in DOMAIN calls : calls[j].parent = Holder }) = 1
         /\ \A j \in DOMAIN calls : calls[j].key # Inherited
         /\ \A c \in Ids :
              /\ Cardinality(CallsUnder(c)) = Visits(c) * Children(c)
              /\ heap[c].kind = "array" =>
                   \A i \in 0..(Len(heap[c].vals) - 1) :
                       Invoked(c, String(i)) = Visits(c)
              /\ heap[c].kind = "object" =>
                   \A k \in Range(heap[c].keys) : Invoked(c, k) = Visits(c)
         /\ Len(calls) = 1 + Visits(1) * Children(1) + Visits(2) * Children(2)
                           + Visits(3) * Children(3)

\* an array with an absent slot and an object with one key were resolved:
\* four invocations, one of them for the absent slot
C17_Witness ==
    /\ RootReturned
    /\ Outcome.state = "fulfilled"
    /\ heap[1].kind = "array"
    /\ heap[1].vals = <<Hole, Ref(2)>>
    /\ heap[2].kind = "object" /\ Len(heap[2].keys) = 1
    /\ Len(calls) = 4
    /\ calls[2] = Invocation(Ref(1), "0", Undefined)

----------------------------------------------------------------------------
\* the replacer has begun to give new objects
Growing == pc \in {"fresh", "growing"}

----------------------------------------------------------------------------
\* the replacer's result x is a container without toJSON that is in the
\* visited set
PlainVisited(x) ==
    /\ x.t = "object" /\ x # Null
    /\ heap[x.v].kind # "hook"
    /\ x.v \in visited

\* the step in which `transform` resumes with the replacer's result for a
\* node
Replied == Len(replies') = Len(replies) + 1

\* the node of that step failed with the circular-structure TypeError
NodeFailsCircular ==
    /\ pc' = "resume"
    /\ ret' = <<Throw(CircularError)>>
    /\ stack' = stack /\ visited' = visited
    /\ resolved' = resolved

\* C19: a node fails with the circular-structure TypeError exactly when the
\* value the replacer gave for it is a container without toJSON that is in
\* the visited set at that moment, whatever the value the replacer was
\* given; and a call is rejected with that error only after such a reply.
C19_CycleOnReplaced ==
    [][ /\ Replied =>
             (NodeFailsCircular <=> PlainVisited(replies'[Len(replies')]))
        /\ (settled' # settled /\ settled'[1].err = CircularError) =>
             /\ replies # <<>>
             /\ replies[Len(replies)].t = "object"
             /\ replies[Len(replies)] # Null
             /\ heap[replies[Len(replies)].v].kind # "hook" ]_vars

\* an input without a cycle, an object holding a number, was rejected with
\* the circular-structure error: the replacer gave the object itself for
\* the number
C19_Witness ==
    /\ Done /\ ~CyclicInput
    /\ Outcome.err = CircularError
    /\ Len(calls) = 2 /\ replaces = 1
    /\ calls[2].val = Num(1)
    /\ replies[2] = Ref(1)

\* a cyclic input, an object holding itself, was fulfilled: the replacer
\* gave undefined for the back-reference
C19_BackReferenceReplaced ==
    /\ Done /\ CyclicInput
    /\ Outcome.state = "fulfilled"
    /\ Len(calls) = 2 /\ replaces = 1
    /\ calls[2].val = Ref(1)
    /\ replies[2] = Undefined

----------------------------------------------------------------------------
(* Two top-level calls on one input graph and one replacer, as started by  *)
(* `Promise.all([asyncStringify(v, r), asyncStringify(w, r)])`.  One call  *)
(* is the running one, held in the variables; the state of the one that    *)
(* waits is held in `other`.  Between two steps the event loop may run the *)
(* continuation of either.  heap, space and the count of replacements are  *)
(* common to both.                                                         *)

\* the call that is running, as it is when it waits
Suspended ==
    Call(value, pc, stack, visited, pending, ret, calls, replies, resolved,
         hooked, renders, settled)

\* a mutant: one set, made once, serves every call
OwnVisited_Shared(o) == visited
\* line 14 and line 24: `new WeakSet()` is made inside asyncStringify and
\* handed down as a parameter: a call resumes with the set it was given
OwnVisited(o) == o.visited

\* the caller makes the second call, on the same value or on a container
\* inside it, once the first call has reached its first await
SecondCall ==
    /\ other.pc = "idle"
    /\ pc = "replacer" /\ replies = <<>>
    /\ Size(replaces) < MaxSize
    /\ \E v \in {value} \cup {Ref(c) : c \in InputContainers} :
         other' = Call(v, "start", <<>>, {}, <<>>, <<>>, <<>>, <<>>, <<>>,
                       <<>>, 0, <<>>)
    /\ UNCHANGED <<heap, value, space, pc, stack, visited, pending, ret,
                   calls, replies, resolved, hooked, replaces, renders,
                   settled>>

\* the event loop runs the call that waited; the one that ran waits
Switch ==
    /\ other.pc \notin {"idle", "done"}
    /\ other' = Suspended
    /\ value' = other.value
    /\ pc' = other.pc
    /\ stack' = other.stack
    /\ visited' = OwnVisited(other)
    /\ pending' = other.pending
    /\ ret' = other.ret
    /\ calls' = other.calls
    /\ replies' = other.replies
    /\ resolved' = other.resolved
    /\ hooked' = other.hooked
    /\ renders' = other.renders
    /\ settled' = other.settled
    /\ UNCHANGED <<heap, space, replaces>>

TwoNext ==
    \/ Next
    \/ SecondCall
    \/ Switch

TwoCalls == Init /\ [][TwoNext]_vars

----------------------------------------------------------------------------
(* One call run on its own, as a function of the replacer's results: rs    *)
(* are the results the replacer gives, in the order of its invocations.    *)

RECURSIVE AloneNode(_, _), AloneLoop(_, _, _, _, _)

\* lines 27-58 and 85: `transform` for one node below the containers anc;
\* r is what it returns or throws, rest the results not yet used
AloneNode(anc, rs) ==
    LET replaced == Head(rs)
        rest     == Tail(rs)
        ends(r)  == [r |-> r, rest |-> rest]
    IN  IF replaced = Rejects THEN ends(Throw(ReplacerError))
        ELSE IF TypeOf(replaced) = "bigint" THEN ends(Throw(BigIntError))
        ELSE IF \/ replaced = Null
                \/ replaced = Undefined
                \/ TypeOf(replaced) \in {"string", "number", "boolean",
                                          "function"}
        THEN ends(Return(Leaf(replaced)))
        ELSE IF TypeOf(replaced) = "object"
        THEN IF heap[replaced.v].kind = "hook"
             THEN IF heap[replaced.v].hook = Throws
                  THEN ends(Throw(HookError))
                  ELSE ends(Return(Leaf(heap[replaced.v].hook)))
             ELSE IF replaced.v \in anc
             THEN ends(Throw(CircularError))
             ELSE AloneLoop(replaced.v, 1, NewResult(replaced.v),
                            anc \cup {replaced.v}, rest)
        ELSE ends(Return(Leaf(replaced)))

\* lines 61-79: the loop of container c from its i-th key on
AloneLoop(c, i, result, anc, rs) ==
    IF i > Len(LoopKeys(c)) THEN [r |-> Return(result), rest |-> rs]
    ELSE LET child == AloneNode(anc, rs)
         IN  IF child.r.kind = "throw" THEN child
             ELSE AloneLoop(c, i + 1,
                            IF heap[c].kind = "array"
                            THEN Push(result, child.r.e)
                            ELSE Assign(result, LoopKeys(c)[i], child.r.e),
                            anc, child.rest)

\* lines 12-17: the promise of a call whose replacer gives rs
Alone(rs) ==
    LET root == AloneNode({}, rs).r
    IN  IF root.kind = "throw" THEN Rejected(root.err) ELSE Render(root.e)

\* the containers of the frames of the call that waits
OtherAncestors == { other.stack[n].obj : n \in DOMAIN other.stack }

\* C20: of two calls that interleave, each has in its visited set the
\* containers of its own frames and nothing of the other call's, and each
\* settles as a call run on its own settles when the replacer gives it the
\* same results.
C20_CallsIsolated ==
    /\ visited = Ancestors
    /\ other.visited = OtherAncestors
    /\ Done => settled = <<Alone(replies)>>
    /\ other.pc = "done" => other.settled = <<Alone(other.replies)>>

\* both calls are suspended inside the same container: it is in both sets,
\* and the call that came second was not refused
C20_Witness ==
    /\ pc = "replacer" /\ other.pc = "replacer"
    /\ visited = {1} /\ other.visited = {1}
    /\ Len(stack) = 1 /\ Len(other.stack) = 1

\* both calls, on the same object, are fulfilled with the same text after
\* the first had waited inside the object for the second
C20_BothFulfilled ==
    /\ Done /\ other.pc = "done"
    /\ value = Ref(1) /\ other.value = Ref(1)
    /\ heap[1].kind = "object" /\ heap[1].vals = <<Num(1)>>
    /\ replaces = 0
    /\ Outcome.state = "fulfilled" /\ Outcome.out.k = "text"
    /\ other.settled = settled

====
